---- MODULE Spec2Model ----
(***************************************************************************)
(* Model of src/main.py: the URL harvesting pipeline                       *)
(* (scrape_property_urls, harvest_urls_from_range, run_scraping_pipeline)  *)
(* and the pure helpers (extract_nested_value, determine_sale_category,    *)
(* extract_property_details).                                              *)
(***************************************************************************)
EXTENDS Integers, Sequences, FiniteSets, TLC

(***************************************************************************)
(* Bounds of the model.                                                    *)
(***************************************************************************)
\* exclusive upper page of a harvesting call (334 in run_scraping_pipeline)
LastPage == 3
\* largest number of title anchors the result pages of one search segment
\* hold together
MaxAnchors == 2

(***************************************************************************)
(* Program constants.                                                      *)
(***************************************************************************)
FirstPage == 1
max_workers == 10
HTTP_OK == 200
\* the status codes a GET can answer with: 200 and one that is not 200
StatusCodes == {HTTP_OK, 404}

\* the two search segments of run_scraping_pipeline
target_urls == <<"search_url_1950_1999", "search_url_2000_plus">>

\* every page number the model can talk about; 0 and LastPage lie outside
\* the range [FirstPage, LastPage) of a call
Pages == 0..LastPage

\* range(first_page, last_page + 1): the upper page taken as inclusive
page_range_inclusive(first_page, last_page) == first_page..last_page

\* range(first_page, last_page)
page_range(first_page, last_page) == first_page..(last_page - 1)

(***************************************************************************)
(* The web site: what a GET of a result page can produce.                  *)
(***************************************************************************)
\* a listing URL is named by the rank of its card on a result page, so the
\* same URL can be found on several pages and in several segments
URLS == 1..MaxAnchors

\* the attrs of a matched a.card__title-link element: with or without href
WithHref(u) == [a \in {"href"} |-> u]
NoHref == [a \in {} |-> 0]

\* the elements soup.select can find on one page, in document order
Bodies ==
    UNION {{b \in [1..k -> {WithHref(u) : u \in URLS} \cup {NoHref}] :
              \A j \in 1..k : b[j] \in {WithHref(j), NoHref}} : k \in 0..MaxAnchors}

\* a response of requests.get: either it raises, or it carries a status code
\* and the elements soup.select finds in its body
Responses ==
    {[raised |-> FALSE, status_code |-> HTTP_OK, elements |-> b] : b \in Bodies}
    \cup {[raised |-> FALSE, status_code |-> c, elements |-> <<>>] : c \in StatusCodes \ {HTTP_OK}}
    \cup {[raised |-> TRUE, status_code |-> 0, elements |-> <<>>]}

NoResponse == [raised |-> FALSE, status_code |-> 0, elements |-> <<>>]

(***************************************************************************)
(* Python values as json.loads produces them.  A str is its sequence of    *)
(* characters; a dict is a function from its keys (strs) to values.        *)
(***************************************************************************)
PyNone == [t |-> "null", v |-> 0]
PyBool(b) == [t |-> "bool", v |-> b]
PyNum(n) == [t |-> "num", v |-> n]
PyStr(s) == [t |-> "str", v |-> s]
PyList(l) == [t |-> "list", v |-> l]
PyDict(f) == [t |-> "dict", v |-> f]

EmptyDict == PyDict([k \in {} |-> PyNone])
OneKeyDict(k, x) == PyDict([j \in {k} |-> x])

\* bool(x)
Truthy(x) ==
    CASE x.t = "null" -> FALSE
      [] x.t = "bool" -> x.v
      [] x.t = "num"  -> x.v # 0
      [] x.t = "str"  -> x.v # <<>>
      [] x.t = "list" -> x.v # <<>>
      [] x.t = "dict" -> DOMAIN x.v # {}

\* x == y; a bool compares as the int 0 or 1
NumOf(x) == IF x.t = "bool" THEN (IF x.v THEN 1 ELSE 0) ELSE x.v
PyEq(x, y) ==
    IF x.t \in {"bool", "num"} /\ y.t \in {"bool", "num"}
    THEN NumOf(x) = NumOf(y)
    ELSE x = y

IsSubstring(k, s) == \E i \in 0..(Len(s) - Len(k)) : SubSeq(s, i + 1, i + Len(k)) = k

\* whether `key in obj` is defined (it raises TypeError on None, bool, int)
SupportsIn(obj) == obj.t \in {"dict", "str", "list"}

\* key in obj, for a str key
Contains(key, obj) ==
    CASE obj.t = "dict" -> key \in DOMAIN obj.v
      [] obj.t = "str"  -> IsSubstring(key, obj.v)
      [] obj.t = "list" -> \E i \in DOMAIN obj.v : PyEq(obj.v[i], PyStr(key))

\* the outcome of a call: a returned value or a raised exception
Return(x) == [raises |-> "none", value |-> x]
Raise(e) == [raises |-> e, value |-> PyNone]

(***************************************************************************)
(* extract_nested_value(dictionary, key_path, fallback)                    *)
(***************************************************************************)
RECURSIVE walk_key_path(_, _, _, _)
walk_key_path(current_obj, key_path, fallback, n) ==
    IF n > Len(key_path) THEN Return(current_obj)
    ELSE IF ~Truthy(current_obj) THEN Return(fallback)
    ELSE IF ~SupportsIn(current_obj) THEN Raise("TypeError")
    ELSE IF ~Contains(key_path[n], current_obj) THEN Return(fallback)
    ELSE IF current_obj.t # "dict" THEN Raise("TypeError")
    ELSE walk_key_path(current_obj.v[key_path[n]], key_path, fallback, n + 1)

\* extract_nested_value ending in `return current_obj or fallback`
extract_nested_value_or_fallback(dictionary, key_path, fallback) ==
    LET found == walk_key_path(dictionary, key_path, fallback, 1) IN
    IF found.raises = "none" /\ ~Truthy(found.value) THEN Return(fallback) ELSE found

extract_nested_value(dictionary, key_path, fallback) ==
    walk_key_path(dictionary, key_path, fallback, 1)

(***************************************************************************)
(* determine_sale_category(property_data)                                  *)
(***************************************************************************)
\* sale_flags with isNotarySale listed before isPublicSale
sale_flags_swapped == <<
    <<"i", "s", "N", "o", "t", "a", "r", "y", "S", "a", "l", "e">>,
    <<"i", "s", "P", "u", "b", "l", "i", "c", "S", "a", "l", "e">>,
    <<"i", "s", "L", "i", "f", "e", "A", "n", "n", "u", "i", "t", "y", "S", "a", "l", "e">>,
    <<"i", "s", "A", "n", "I", "n", "t", "e", "r", "a", "c", "t", "i", "v", "e", "S", "a", "l", "e">>,
    <<"i", "s", "N", "e", "w", "l", "y", "B", "u", "i", "l", "t">>,
    <<"i", "s", "I", "n", "v", "e", "s", "t", "m", "e", "n", "t", "P", "r", "o", "j", "e", "c", "t">>,
    <<"i", "s", "U", "n", "d", "e", "r", "O", "p", "t", "i", "o", "n">>,
    <<"i", "s", "N", "e", "w", "R", "e", "a", "l", "E", "s", "t", "a", "t", "e", "P", "r", "o", "j", "e", "c", "t">>
>>

sale_flags == <<
    <<"i", "s", "P", "u", "b", "l", "i", "c", "S", "a", "l", "e">>,
    <<"i", "s", "N", "o", "t", "a", "r", "y", "S", "a", "l", "e">>,
    <<"i", "s", "L", "i", "f", "e", "A", "n", "n", "u", "i", "t", "y", "S", "a", "l", "e">>,
    <<"i", "s", "A", "n", "I", "n", "t", "e", "r", "a", "c", "t", "i", "v", "e", "S", "a", "l", "e">>,
    <<"i", "s", "N", "e", "w", "l", "y", "B", "u", "i", "l", "t">>,
    <<"i", "s", "I", "n", "v", "e", "s", "t", "m", "e", "n", "t", "P", "r", "o", "j", "e", "c", "t">>,
    <<"i", "s", "U", "n", "d", "e", "r", "O", "p", "t", "i", "o", "n">>,
    <<"i", "s", "N", "e", "w", "R", "e", "a", "l", "E", "s", "t", "a", "t", "e", "P", "r", "o", "j", "e", "c", "t">>
>>

flags_key == <<"f", "l", "a", "g", "s">>

\* str.replace(old, new): every non-overlapping occurrence, left to right
RECURSIVE str_replace(_, _, _)
str_replace(s, old, new) ==
    IF Len(s) < Len(old) \/ old = <<>> THEN s
    ELSE IF SubSeq(s, 1, Len(old)) = old
         THEN new \o str_replace(SubSeq(s, Len(old) + 1, Len(s)), old, new)
         ELSE <<s[1]>> \o str_replace(Tail(s), old, new)

RECURSIVE scan_sale_flags(_, _)
scan_sale_flags(property_data, n) ==
    IF n > Len(sale_flags) THEN Return(PyNone)
    ELSE LET found == extract_nested_value(property_data, <<flags_key, sale_flags[n]>>, PyNone) IN
         IF found.raises # "none" THEN found
         ELSE IF PyEq(found.value, PyBool(TRUE))
              THEN Return(PyStr(str_replace(sale_flags[n], <<"i", "s">>, <<>>)))
              ELSE scan_sale_flags(property_data, n + 1)

determine_sale_category(property_data) == scan_sale_flags(property_data, 1)

(***************************************************************************)
(* extract_property_details(property_index, property_url)                  *)
(***************************************************************************)
\* json.loads of an attribute text, the text being given by what it decodes to
json_loads(text) ==
    IF text.malformed THEN Raise("JSONDecodeError") ELSE Return(text.decoded)

\* response: what requests.get(property_url) produces, with the
\* iw-load-advertisements elements of its body
extract_property_details(property_index, response) ==
    IF response.raised THEN Raise("RequestException")
    ELSE LET elements == response.elements
             empty_info == [f \in {} |-> PyNone]
         IN
         IF response.status_code = HTTP_OK
            /\ Len(elements) > 0
            /\ ":classified" \in DOMAIN elements[1]
         THEN LET property_data == json_loads(elements[1][":classified"]) IN
              IF property_data.raises # "none" THEN property_data
              ELSE LET category == determine_sale_category(property_data.value) IN
                   IF category.raises # "none" THEN category
                   ELSE Return([index |-> property_index,
                                info |-> [f \in {"typeOfSale"} |-> category.value]])
         ELSE Return([index |-> property_index, info |-> empty_info])

NoCall == [fn |-> "none", args |-> <<>>, returned |-> FALSE, ret |-> Return(PyNone)]

(***************************************************************************)
(* State.                                                                  *)
(***************************************************************************)
VARIABLES
    pc,                \* position of run_scraping_pipeline
    seg,               \* index into target_urls of the for loop
    next_page,         \* next page executor.map submits
    task,              \* per page of the current call: the work item / future
    fetches,           \* per page of the current call: number of requests.get calls
    call_base,         \* len(url_storage) when the current call was entered
    collected_urls,    \* the shared list
    log,               \* printed messages, as a bag over <<kind, page>>
    log_base,          \* the printed messages when the current call was entered
    urls_file,         \* content of Data/property_links.csv
    property_records,  \* detail records held by the pipeline
    cleaned,           \* sanitize_and_store_dataset has run
    call,              \* one call of a helper function: arguments and outcome
    stages,            \* the stages run_scraping_pipeline has completed, in order
    appended_by        \* per URL the current call appended: the page of its task

vars == <<pc, seg, next_page, task, fetches, call_base, collected_urls, log,
          log_base, urls_file, property_records, cleaned, call, stages, appended_by>>

LogEntries == {"processed", "failed"} \X Pages

IdleTask == [st |-> "none", at |-> "none", response |-> NoResponse, i |-> 0]

Terminal(t) == t.st \in {"none", "done", "raised"}

Running == {p \in DOMAIN task : task[p].st = "running"}
Queued == {p \in DOMAIN task : task[p].st = "queued"}

Init ==
    /\ pc = "loop"
    /\ seg = 1
    /\ next_page = FirstPage
    /\ task = [p \in Pages |-> IdleTask]
    /\ fetches = [p \in Pages |-> 0]
    /\ call_base = 0
    /\ collected_urls = <<>>
    /\ log = [e \in LogEntries |-> 0]
    /\ log_base = log
    /\ urls_file = [written |-> FALSE, rows |-> <<>>]
    /\ property_records = <<>>
    /\ cleaned = FALSE
    /\ call = NoCall
    /\ stages = <<>>
    /\ appended_by = <<>>

(***************************************************************************)
(* harvest_urls_from_range(website_url, first_page, last_page, url_storage)*)
(***************************************************************************)
\* entry of the call: page_range is built and the executor is created
harvest_urls_from_range ==
    /\ pc = "loop"
    /\ seg <= Len(target_urls)
    /\ pc' = "map"
    /\ next_page' = FirstPage
    /\ task' = [p \in DOMAIN task |-> IdleTask]
    /\ fetches' = [p \in DOMAIN fetches |-> 0]
    /\ call_base' = Len(collected_urls)
    /\ log_base' = log
    /\ appended_by' = <<>>
    /\ UNCHANGED <<seg, collected_urls, log, urls_file, property_records, cleaned, call, stages>>

\* executor.map submits one work item per page of page_range, in order
Submit(last_page) ==
    /\ pc = "map"
    /\ next_page \in page_range(FirstPage, last_page)
    /\ task' = [task EXCEPT ![next_page].st = "queued"]
    /\ next_page' = next_page + 1
    /\ UNCHANGED <<pc, seg, fetches, call_base, log_base, collected_urls, log, urls_file,
                   property_records, cleaned, call, stages, appended_by>>

\* the with block exits: shutdown(wait=True) joins every worker, the
\* iterator of executor.map is dropped unread, the call returns
AllTasksFinished == \A p \in DOMAIN task : Terminal(task[p])

\* harvest_return as shutdown(wait=False) would make it: the workers are not joined
harvest_return_nowait(last_page) ==
    /\ pc = "map"
    /\ next_page \notin page_range(FirstPage, last_page)
    /\ pc' = "loop"
    /\ seg' = seg + 1
    /\ stages' = Append(stages, "harvest_urls")
    /\ UNCHANGED <<next_page, task, fetches, call_base, log_base, collected_urls, log,
                   urls_file, property_records, cleaned, call, appended_by>>

\* harvest_return as list(executor.map(...)) would make it: reading the
\* results re-raises a task's exception in the caller
harvest_return_reraise(last_page) ==
    /\ pc = "map"
    /\ next_page \notin page_range(FirstPage, last_page)
    /\ AllTasksFinished
    /\ IF \E p \in DOMAIN task : task[p].st = "raised"
       THEN pc' = "aborted" /\ seg' = seg
       ELSE pc' = "loop" /\ seg' = seg + 1
    /\ stages' = Append(stages, "harvest_urls")
    /\ UNCHANGED <<next_page, task, fetches, call_base, log_base, collected_urls, log,
                   urls_file, property_records, cleaned, call, appended_by>>

harvest_return(last_page) ==
    /\ pc = "map"
    /\ next_page \notin page_range(FirstPage, last_page)
    /\ AllTasksFinished
    /\ pc' = "loop"
    /\ seg' = seg + 1
    /\ stages' = Append(stages, "harvest_urls")
    /\ UNCHANGED <<next_page, task, fetches, call_base, log_base, collected_urls, log,
                   urls_file, property_records, cleaned, call, appended_by>>

(***************************************************************************)
(* scrape_property_urls(base_url, page_number, url_collection), run by a   *)
(* worker thread of the pool                                               *)
(***************************************************************************)
\* a worker takes the oldest work item off the queue
Start_unbounded(p) ==
    /\ task[p].st = "queued"
    /\ \A q \in Queued : p <= q
    /\ task' = [task EXCEPT ![p].st = "running", ![p].at = "get"]
    /\ UNCHANGED <<pc, seg, next_page, fetches, call_base, log_base, collected_urls, log,
                   urls_file, property_records, cleaned, call, stages, appended_by>>

Start(p) ==
    /\ task[p].st = "queued"
    /\ \A q \in Queued : p <= q
    /\ Cardinality(Running) < max_workers
    /\ task' = [task EXCEPT ![p].st = "running", ![p].at = "get"]
    /\ UNCHANGED <<pc, seg, next_page, fetches, call_base, log_base, collected_urls, log,
                   urls_file, property_records, cleaned, call, stages, appended_by>>

\* the number of title anchors on the pages fetched so far in this call
Served ==
    Cardinality({pn \in (DOMAIN task) \X (1..MaxAnchors) :
                   pn[2] \in DOMAIN task[pn[1]].response.elements})

\* line 24-25: requests.get answers with r (or raises), then the status check
GetResponse(p, r) ==
    /\ task[p].st = "running"
    /\ task[p].at = "get"
    /\ task' = [task EXCEPT ![p] =
               IF r.raised
               THEN [st |-> "raised", at |-> "get", response |-> r, i |-> 0]
               ELSE [st |-> "running",
                     at |-> IF r.status_code = HTTP_OK THEN "for" ELSE "else",
                     response |-> r, i |-> 1]]
    /\ fetches' = [fetches EXCEPT ![p] = @ + 1]
    /\ UNCHANGED <<pc, seg, next_page, call_base, log_base, collected_urls, log, urls_file,
                   property_records, cleaned, call, stages, appended_by>>

\* the site answers with any response that keeps the anchors of the segment
\* within MaxAnchors
Get(p) ==
    /\ task[p].at = "get"
    /\ \E r \in Responses :
         /\ Len(r.elements) + Served <= MaxAnchors
         /\ GetResponse(p, r)

AppendHref_logs_failure(p) ==
    /\ task[p].st = "running"
    /\ task[p].at = "for"
    /\ task[p].i <= Len(task[p].response.elements)
    /\ LET element == task[p].response.elements[task[p].i] IN
         IF "href" \in DOMAIN element
         THEN /\ collected_urls' = Append(collected_urls, element["href"])
              /\ appended_by' = Append(appended_by, p)
              /\ task' = [task EXCEPT ![p].i = @ + 1]
              /\ UNCHANGED log
         ELSE /\ task' = [task EXCEPT ![p].st = "raised"]
              /\ log' = [log EXCEPT ![<<"failed", p>>] = @ + 1]
              /\ UNCHANGED <<collected_urls, appended_by>>
    /\ UNCHANGED <<pc, seg, next_page, fetches, call_base, log_base, urls_file,
                   property_records, cleaned, call, stages>>

AppendHref_in_front(p) ==
    /\ task[p].st = "running"
    /\ task[p].at = "for"
    /\ task[p].i <= Len(task[p].response.elements)
    /\ LET element == task[p].response.elements[task[p].i] IN
         IF "href" \in DOMAIN element
         THEN /\ collected_urls' = SubSeq(collected_urls, 1, call_base)
                                      \o <<element["href"]>>
                                      \o SubSeq(collected_urls, call_base + 1, Len(collected_urls))
              /\ appended_by' = <<p>> \o appended_by
              /\ task' = [task EXCEPT ![p].i = @ + 1]
         ELSE /\ task' = [task EXCEPT ![p].st = "raised"]
              /\ UNCHANGED <<collected_urls, appended_by>>
    /\ UNCHANGED <<pc, seg, next_page, fetches, call_base, log_base, log, urls_file,
                   property_records, cleaned, call, stages>>

\* line 27-28: one iteration of the for loop, url_collection.append(element.attrs["href"])
AppendHref(p) ==
    /\ task[p].st = "running"
    /\ task[p].at = "for"
    /\ task[p].i <= Len(task[p].response.elements)
    /\ LET element == task[p].response.elements[task[p].i] IN
         IF "href" \in DOMAIN element
         THEN /\ collected_urls' = Append(collected_urls, element["href"])
              /\ appended_by' = Append(appended_by, p)
              /\ task' = [task EXCEPT ![p].i = @ + 1]
         ELSE /\ task' = [task EXCEPT ![p].st = "raised"]
              /\ UNCHANGED <<collected_urls, appended_by>>
    /\ UNCHANGED <<pc, seg, next_page, fetches, call_base, log_base, log, urls_file,
                   property_records, cleaned, call, stages>>

Processed_empty_page_as_failure(p) ==
    /\ task[p].st = "running"
    /\ task[p].at = "for"
    /\ task[p].i > Len(task[p].response.elements)
    /\ LET kind == IF Len(task[p].response.elements) = 0 THEN "failed" ELSE "processed" IN
         log' = [log EXCEPT ![<<kind, p>>] = @ + 1]
    /\ task' = [task EXCEPT ![p].st = "done"]
    /\ UNCHANGED <<pc, seg, next_page, fetches, call_base, log_base, collected_urls,
                   urls_file, property_records, cleaned, call, stages, appended_by>>

\* line 29-30: the loop is over, the processed message is printed
Processed(p) ==
    /\ task[p].st = "running"
    /\ task[p].at = "for"
    /\ task[p].i > Len(task[p].response.elements)
    /\ log' = [log EXCEPT ![<<"processed", p>>] = @ + 1]
    /\ task' = [task EXCEPT ![p].st = "done"]
    /\ UNCHANGED <<pc, seg, next_page, fetches, call_base, log_base, collected_urls,
                   urls_file, property_records, cleaned, call, stages, appended_by>>

\* line 31-32: the failure message is printed
Failed(p) ==
    /\ task[p].st = "running"
    /\ task[p].at = "else"
    /\ log' = [log EXCEPT ![<<"failed", p>>] = @ + 1]
    /\ task' = [task EXCEPT ![p].st = "done"]
    /\ UNCHANGED <<pc, seg, next_page, fetches, call_base, log_base, collected_urls,
                   urls_file, property_records, cleaned, call, stages, appended_by>>

(***************************************************************************)
(* run_scraping_pipeline after the for loop                                *)
(***************************************************************************)
output_urls_to_file_early ==
    /\ pc = "loop"
    /\ seg >= Len(target_urls)
    /\ urls_file' = [written |-> TRUE, rows |-> collected_urls]
    /\ pc' = "sleep"
    /\ stages' = Append(stages, "persist_urls")
    /\ UNCHANGED <<seg, next_page, task, fetches, call_base, log_base, collected_urls, log,
                   property_records, cleaned, call, appended_by>>

\* line 158-160: print(len(collected_urls)); output_urls_to_file
output_urls_to_file ==
    /\ pc = "loop"
    /\ seg > Len(target_urls)
    /\ urls_file' = [written |-> TRUE, rows |-> collected_urls]
    /\ pc' = "sleep"
    /\ stages' = Append(stages, "persist_urls")
    /\ UNCHANGED <<seg, next_page, task, fetches, call_base, log_base, collected_urls, log,
                   property_records, cleaned, call, appended_by>>

\* line 162: time.sleep(30)
Sleep ==
    /\ pc = "sleep"
    /\ pc' = "sanitize"
    /\ UNCHANGED <<seg, next_page, task, fetches, call_base, log_base, collected_urls, log,
                   urls_file, property_records, cleaned, call, stages, appended_by>>

\* line 163-164: sanitize_and_store_dataset(final_output)
sanitize_and_store_dataset ==
    /\ pc = "sanitize"
    /\ cleaned' = TRUE
    /\ pc' = "done"
    /\ stages' = Append(stages, "clean")
    /\ UNCHANGED <<seg, next_page, task, fetches, call_base, log_base, collected_urls, log,
                   urls_file, property_records, call, appended_by>>

Next ==
    \/ harvest_urls_from_range
    \/ Submit(LastPage)
    \/ harvest_return(LastPage)
    \/ \E p \in Pages : Start(p)
    \/ \E p \in Pages : Get(p)
    \/ \E p \in Pages : AppendHref(p)
    \/ \E p \in Pages : Processed(p)
    \/ \E p \in Pages : Failed(p)
    \/ output_urls_to_file
    \/ Sleep
    \/ sanitize_and_store_dataset

Spec == Init /\ [][Next]_vars

(***************************************************************************)
(* The pipeline with page ranges wider than the pool (PoolSpec): every     *)
(* range has PoolLastPage - 1 pages, more than max_workers, and the site   *)
(* is unreachable: every requests.get raises.                              *)
(***************************************************************************)
PoolLastPage == 12

PoolPages == 0..PoolLastPage

PoolInit ==
    /\ pc = "loop"
    /\ seg = 1
    /\ next_page = FirstPage
    /\ task = [p \in PoolPages |-> IdleTask]
    /\ fetches = [p \in PoolPages |-> 0]
    /\ call_base = 0
    /\ collected_urls = <<>>
    /\ log = [e \in {"processed", "failed"} \X PoolPages |-> 0]
    /\ log_base = log
    /\ urls_file = [written |-> FALSE, rows |-> <<>>]
    /\ property_records = <<>>
    /\ cleaned = FALSE
    /\ call = NoCall
    /\ stages = <<>>
    /\ appended_by = <<>>

\* line 24 on the unreachable site
PoolGet(p) ==
    /\ Get(p)
    /\ task'[p].response.raised

PoolNext ==
    \/ harvest_urls_from_range
    \/ Submit(PoolLastPage)
    \/ harvest_return(PoolLastPage)
    \/ \E p \in PoolPages : Start(p)
    \/ \E p \in PoolPages : PoolGet(p)
    \/ output_urls_to_file
    \/ Sleep
    \/ sanitize_and_store_dataset

PoolSpec == PoolInit /\ [][PoolNext]_vars

(***************************************************************************)
(* The pipeline on a site whose first result page lists MaxAnchors         *)
(* listings, each anchor with its href, while every other page lists at    *)
(* most one (OrderSpec): the tasks of a call append concurrently.          *)
(***************************************************************************)
FullPage ==
    [raised |-> FALSE, status_code |-> HTTP_OK,
     elements |-> [j \in 1..MaxAnchors |-> WithHref(j)]]

OrderSite(p) ==
    IF p = FirstPage THEN {FullPage}
    ELSE {r \in Responses : Len(r.elements) <= 1}

OrderGet(p) ==
    /\ task[p].at = "get"
    /\ \E r \in OrderSite(p) : GetResponse(p, r)

OrderNext ==
    \/ harvest_urls_from_range
    \/ Submit(LastPage)
    \/ harvest_return(LastPage)
    \/ \E p \in Pages : Start(p)
    \/ \E p \in Pages : OrderGet(p)
    \/ \E p \in Pages : AppendHref(p)
    \/ \E p \in Pages : Processed(p)
    \/ \E p \in Pages : Failed(p)
    \/ output_urls_to_file
    \/ Sleep
    \/ sanitize_and_store_dataset

OrderSpec == Init /\ [][OrderNext]_vars

(***************************************************************************)
(* The helper functions, each applied once to arguments drawn from the     *)
(* values below.                                                           *)
(***************************************************************************)
\* deepest nesting of dicts in the argument of extract_nested_value
MaxDepth == 2
\* longest key path
MaxPathLen == 3
\* largest property_index
MaxIndex == 1

Leaves ==
    {PyNone, PyBool(FALSE), PyBool(TRUE), PyNum(0), PyNum(1), PyNum(5),
     PyStr(<<>>), PyStr(<<"a">>), PyStr(<<"x", "b">>),
     PyList(<<>>), PyList(<<PyStr(<<"a">>)>>), EmptyDict}

DataKeys == {<<"a">>, <<"b">>}
PathKeys == {<<"a">>, <<"b">>, <<"c">>}

RECURSIVE ValuesOfDepth(_)
ValuesOfDepth(d) ==
    IF d = 0 THEN Leaves
    ELSE Leaves \cup {OneKeyDict(k, x) : k \in DataKeys, x \in ValuesOfDepth(d - 1)}

\* the dictionary argument is a dict, nested to at most MaxDepth
Dictionaries == {x \in ValuesOfDepth(MaxDepth) : x.t = "dict"}

KeyPaths == UNION {[1..n -> PathKeys] : n \in 0..MaxPathLen}

Fallbacks == {PyNone, PyStr(<<"X">>)}

\* the values a flag can have in a flags dict; "absent" leaves the key out
FlagStates == {"absent", "false", "true"}

FlagsDict(assign) ==
    PyDict([k \in {sale_flags[n] : n \in {m \in DOMAIN sale_flags : assign[m] # "absent"}} |->
              PyBool(assign[CHOOSE n \in DOMAIN sale_flags : sale_flags[n] = k] = "true")])

FlagsValues ==
    {FlagsDict(assign) : assign \in [DOMAIN sale_flags -> FlagStates]}
    \cup Leaves
    \cup {OneKeyDict(sale_flags[1], PyNum(1)), OneKeyDict(sale_flags[2], PyNone)}

\* the decoded listing data: a mapping, whatever is stored under "flags"
PropertyData ==
    {EmptyDict}
    \cup {OneKeyDict(flags_key, x) : x \in FlagsValues}
    \cup {OneKeyDict(<<"a">>, PyBool(TRUE))}

\* the text of a :classified attribute
AttrTexts ==
    {[malformed |-> TRUE, decoded |-> PyNone]}
    \cup {[malformed |-> FALSE, decoded |-> d] : d \in PropertyData}

Classified(text) == [a \in {":classified"} |-> text]
NoClassified == [a \in {} |-> [malformed |-> TRUE, decoded |-> PyNone]]

DetailElements ==
    {<<>>, <<NoClassified>>}
    \cup {<<Classified(x)>> : x \in AttrTexts}
    \cup {<<NoClassified, Classified(x)>> : x \in {y \in AttrTexts : y.malformed}}

DetailResponses ==
    {[raised |-> TRUE, status_code |-> 0, elements |-> <<>>]}
    \cup {[raised |-> FALSE, status_code |-> c, elements |-> e] :
            c \in StatusCodes, e \in DetailElements}

Functions == {"extract_nested_value", "determine_sale_category", "extract_property_details"}

\* the calls of function fn, before they return
Calls(fn) ==
    IF fn = "extract_nested_value"
    THEN {[fn |-> fn,
           args |-> [dictionary |-> d, key_path |-> k, fallback |-> f],
           returned |-> FALSE, ret |-> Return(PyNone)] :
             d \in Dictionaries, k \in KeyPaths, f \in Fallbacks}
    ELSE IF fn = "determine_sale_category"
    THEN {[fn |-> fn,
           args |-> [property_data |-> d],
           returned |-> FALSE, ret |-> Return(PyNone)] : d \in PropertyData}
    ELSE {[fn |-> fn,
           args |-> [property_index |-> n, response |-> r],
           returned |-> FALSE, ret |-> Return(PyNone)] :
             n \in 0..MaxIndex, r \in DetailResponses}

FnInit ==
    /\ pc = "loop"
    /\ seg = 1
    /\ next_page = FirstPage
    /\ task = [p \in Pages |-> IdleTask]
    /\ fetches = [p \in Pages |-> 0]
    /\ call_base = 0
    /\ collected_urls = <<>>
    /\ log = [e \in LogEntries |-> 0]
    /\ log_base = log
    /\ urls_file = [written |-> FALSE, rows |-> <<>>]
    /\ property_records = <<>>
    /\ cleaned = FALSE
    /\ \E fn \in Functions : call \in Calls(fn)
    /\ stages = <<>>
    /\ appended_by = <<>>

pipeline_vars == <<pc, seg, next_page, task, fetches, call_base, collected_urls,
                   log, log_base, urls_file, property_records, cleaned, stages, appended_by>>

call_extract_nested_value ==
    /\ call.fn = "extract_nested_value"
    /\ ~call.returned
    /\ call' = [call EXCEPT !.returned = TRUE,
                            !.ret = extract_nested_value(call.args.dictionary,
                                                         call.args.key_path,
                                                         call.args.fallback)]
    /\ UNCHANGED pipeline_vars

call_determine_sale_category ==
    /\ call.fn = "determine_sale_category"
    /\ ~call.returned
    /\ call' = [call EXCEPT !.returned = TRUE,
                            !.ret = determine_sale_category(call.args.property_data)]
    /\ UNCHANGED pipeline_vars

\* lines 98-117 hold no print: the call leaves log as it is
call_extract_property_details ==
    /\ call.fn = "extract_property_details"
    /\ ~call.returned
    /\ call' = [call EXCEPT !.returned = TRUE,
                            !.ret = extract_property_details(call.args.property_index,
                                                             call.args.response)]
    /\ UNCHANGED pipeline_vars

FnNext ==
    \/ call_extract_nested_value
    \/ call_determine_sale_category
    \/ call_extract_property_details

FnSpec == FnInit /\ [][FnNext]_vars

(***************************************************************************)
(* Properties of the harvesting pipeline (specification Spec).             *)
(***************************************************************************)
\* a call of harvest_urls_from_range has returned; task, fetches and
\* call_base still describe that call
HarvestReturned == pc # "map" /\ seg > 1

\* the pages of [FirstPage, LastPage)
CallRange == {p \in Pages : p >= FirstPage /\ p + 1 <= LastPage}

AddedByCall == SubSeq(collected_urls, call_base + 1, Len(collected_urls))

Occurrences(s, u) == Cardinality({n \in DOMAIN s : s[n] = u})

SuccessfulPages ==
    {p \in CallRange : ~task[p].response.raised /\ task[p].response.status_code = 200}
FailedPages ==
    {p \in CallRange : ~task[p].response.raised /\ task[p].response.status_code \notin {0, 200}}

\* the anchors of page p that carry the URL u
HrefsOf(p, u) ==
    {<<p, n>> : n \in {m \in DOMAIN task[p].response.elements :
                         /\ "href" \in DOMAIN task[p].response.elements[m]
                         /\ task[p].response.elements[m]["href"] = u}}

\* C1: once harvest has returned, the URLs the call added to the shared
\* collection are, as a multiset, exactly the URLs of its successful pages,
\* and its failed pages added nothing.
C1_AddedIsUnionOfSuccessfulPages ==
    HarvestReturned =>
        \A u \in URLS :
            Occurrences(AddedByCall, u) =
                Cardinality(UNION {HrefsOf(p, u) : p \in SuccessfulPages})

\* C2: whenever the pipeline is outside a harvesting call, no page task is
\* queued or running and no append of a task is possible.
C2_ReturnsAfterAllTasks ==
    pc # "map" =>
        /\ \A p \in Pages : task[p].st \notin {"queued", "running"}
        /\ ~ENABLED (\E p \in Pages : AppendHref(p))

C2_Witness ==
    /\ pc = "loop"
    /\ seg = 2
    /\ \A p \in CallRange : task[p].st = "done"
    /\ Len(collected_urls) >= 2

\* C3: when the pipeline is done there is one detail record per collected
\* URL, stored under the index of that URL.
C3_OneRecordPerURL ==
    pc = "done" =>
        /\ DOMAIN property_records = DOMAIN collected_urls
        /\ \A n \in DOMAIN property_records :
               /\ property_records[n].index = n
               /\ property_records[n].url = collected_urls[n]

LookupReturned == call.fn = "extract_nested_value" /\ call.returned
ClassifyReturned == call.fn = "determine_sale_category" /\ call.returned
DetailsReturned == call.fn = "extract_property_details" /\ call.returned

\* C4: for a non-empty key path extract_nested_value returns a value and
\* raises nothing.
C4_LookupNeverRaises ==
    (LookupReturned /\ Len(call.args.key_path) >= 1) => call.ret.raises = "none"

\* the object stored under the first n keys of path, if every one of them
\* is a key of the mapping reached before it
RECURSIVE StoredAt(_, _, _)
StoredAt(data, path, n) ==
    IF n = 0 THEN [found |-> TRUE, obj |-> data]
    ELSE LET before == StoredAt(data, path, n - 1) IN
         IF before.found /\ before.obj.t = "dict" /\ path[n] \in DOMAIN before.obj.v
         THEN [found |-> TRUE, obj |-> before.obj.v[path[n]]]
         ELSE [found |-> FALSE, obj |-> PyNone]

Falsy == {PyNum(0), PyStr(<<>>), PyBool(FALSE), PyNone, EmptyDict}

\* C5: the result is the fallback when the object reached before some key
\* of the path is falsy or is a mapping without that key; it is the value
\* stored under the last key, as it is, when every key resolves.
C5_FalsyShortCircuit ==
    LookupReturned =>
        LET d == call.args.dictionary
            k == call.args.key_path
        IN
        /\ \A n \in 0..(Len(k) - 1) :
              LET at == StoredAt(d, k, n) IN
              (at.found /\ (at.obj \in Falsy
                            \/ (at.obj.t = "dict" /\ k[n + 1] \notin DOMAIN at.obj.v)))
                  => call.ret = Return(call.args.fallback)
        /\ StoredAt(d, k, Len(k)).found => call.ret = Return(StoredAt(d, k, Len(k)).obj)

\* lookup({a: {b: 0}}, [a, b, c], X) = X
C5_Witness ==
    /\ LookupReturned
    /\ call.args.dictionary = OneKeyDict(<<"a">>, OneKeyDict(<<"b">>, PyNum(0)))
    /\ call.args.key_path = <<(<<"a">>), (<<"b">>), (<<"c">>)>>
    /\ call.args.fallback = PyStr(<<"X">>)
    /\ call.ret = Return(PyStr(<<"X">>))

\* the fixed order of the flags
FlagOrder == <<
    <<"i", "s", "P", "u", "b", "l", "i", "c", "S", "a", "l", "e">>,
    <<"i", "s", "N", "o", "t", "a", "r", "y", "S", "a", "l", "e">>,
    <<"i", "s", "L", "i", "f", "e", "A", "n", "n", "u", "i", "t", "y", "S", "a", "l", "e">>,
    <<"i", "s", "A", "n", "I", "n", "t", "e", "r", "a", "c", "t", "i", "v", "e", "S", "a", "l", "e">>,
    <<"i", "s", "N", "e", "w", "l", "y", "B", "u", "i", "l", "t">>,
    <<"i", "s", "I", "n", "v", "e", "s", "t", "m", "e", "n", "t", "P", "r", "o", "j", "e", "c", "t">>,
    <<"i", "s", "U", "n", "d", "e", "r", "O", "p", "t", "i", "o", "n">>,
    <<"i", "s", "N", "e", "w", "R", "e", "a", "l", "E", "s", "t", "a", "t", "e", "P", "r", "o", "j", "e", "c", "t">>
>>

FlagsOf(data) == data.v[<<"f", "l", "a", "g", "s">>]

HasFlagsDict(data) ==
    /\ data.t = "dict"
    /\ <<"f", "l", "a", "g", "s">> \in DOMAIN data.v
    /\ FlagsOf(data).t = "dict"

\* the flag is present under data.flags and equals true
FlagIsTrue(data, flag) ==
    /\ HasFlagsDict(data)
    /\ flag \in DOMAIN FlagsOf(data).v
    /\ PyEq(FlagsOf(data).v[flag], PyBool(TRUE))

AllFlagsBoolean(data) ==
    /\ HasFlagsDict(data)
    /\ DOMAIN FlagsOf(data).v = {FlagOrder[n] : n \in DOMAIN FlagOrder}
    /\ \A flag \in DOMAIN FlagsOf(data).v : FlagsOf(data).v[flag].t = "bool"

\* the name without its leading "is"
WithoutIsPrefix(flag) == SubSeq(flag, 3, Len(flag))

\* C6: with a boolean for each of the eight flags, the result is the name,
\* without its "is" prefix, of the first flag of the fixed order that is true.
C6_FirstTrueFlag ==
    (ClassifyReturned /\ AllFlagsBoolean(call.args.property_data)) =>
        \A n \in DOMAIN FlagOrder :
            (/\ FlagIsTrue(call.args.property_data, FlagOrder[n])
             /\ \A m \in 1..(n - 1) : ~FlagIsTrue(call.args.property_data, FlagOrder[m]))
            => /\ SubSeq(FlagOrder[n], 1, 2) = <<"i", "s">>
               /\ call.ret = Return(PyStr(WithoutIsPrefix(FlagOrder[n])))

\* {isNotarySale: true, isPublicSale: true, ...} gives "PublicSale"
C6_Witness ==
    /\ ClassifyReturned
    /\ AllFlagsBoolean(call.args.property_data)
    /\ FlagIsTrue(call.args.property_data, FlagOrder[1])
    /\ FlagIsTrue(call.args.property_data, FlagOrder[2])
    /\ FlagIsTrue(call.args.property_data, FlagOrder[8])
    /\ call.ret = Return(PyStr(<<"P", "u", "b", "l", "i", "c", "S", "a", "l", "e">>))

\* the page tasks a worker has picked up, and those that have ended
Started == {p \in DOMAIN task : task[p].st \in {"running", "done", "raised"}}
Ended == {p \in DOMAIN task : task[p].st \in {"done", "raised"}}

\* C12: in every step at most 10 page tasks are running afterwards, and a
\* queued task that starts when 10 or more tasks of the call were started
\* before it starts with fewer than 10 of them still running: at least one
\* of them has ended for each task beyond the tenth.
C12_AtMostTenRunning ==
    [][/\ Cardinality(Running') <= 10
       /\ \A p \in DOMAIN task :
              (task[p].st = "queued" /\ task'[p].st = "running")
                  => /\ Cardinality(Started) - Cardinality(Ended) < 10
                     /\ Cardinality(Started) >= 10
                            => Cardinality(Ended) >= Cardinality(Started) - 9]_vars

\* the pool is full again after an eleventh page has started
C12_Witness ==
    /\ Cardinality(Running) = 10
    /\ Cardinality(Started) > 10
    /\ Queued = {}

\* the messages of one kind the current call has printed for page p
Logged(kind, p) == log[<<kind, p>>] - log_base[<<kind, p>>]

\* the pages of the current call whose task has raised
RaisedPages == {p \in CallRange : task[p].st = "raised"}

\* the pages of the current call that were fetched with status 200 and
\* yield no URL
EmptyPages == {p \in SuccessfulPages : Len(task[p].response.elements) = 0}

RECURSIVE AnchorsOn(_)
AnchorsOn(pages) ==
    IF pages = {} THEN 0
    ELSE LET p == CHOOSE q \in pages : TRUE IN
           Len(task[p].response.elements) + AnchorsOn(pages \ {p})

IsPrefix(s, t) == Len(s) <= Len(t) /\ SubSeq(t, 1, Len(s)) = s

\* no step removes, replaces or reorders an element of the collection
AppendOnly == [][IsPrefix(collected_urls, collected_urls')]_vars

\* C15: every step keeps the previous content of the shared collection as a
\* prefix of the new content, and when a harvesting call returns it has
\* added one URL per anchor of its successful pages, a URL found twice being
\* added twice, so that the final length is the number of anchors of the
\* successful pages of all segments.
C15_AppendOnlyNoDedup ==
    [][/\ IsPrefix(collected_urls, collected_urls')
       /\ HarvestReturned' => (Len(AddedByCall) = AnchorsOn(SuccessfulPages))']_vars

\* no page task is waiting for a worker or running
NoTaskPending == \A p \in DOMAIN task : task[p].st \notin {"queued", "running"}

\* C16: a harvesting call is entered only when no task of the call before
\* is queued or running, and it notes the length of the collection; a task
\* is queued, started or moved only inside a call; a URL is appended only
\* inside a call and behind everything the earlier calls have collected;
\* the URL file is written only when every segment has been harvested and
\* no task is queued or running, and it holds the whole collection.
C16_SegmentsInSequence ==
    [][/\ (pc = "loop" /\ pc' = "map")
            => NoTaskPending /\ call_base' = Len(collected_urls)
       /\ (\E p \in DOMAIN task : task'[p] # task[p] /\ task'[p].st # "none")
            => pc = "map" /\ pc' = "map"
       /\ collected_urls' # collected_urls
            => /\ pc = "map"
               /\ call_base <= Len(collected_urls)
               /\ IsPrefix(collected_urls, collected_urls')
       /\ (~urls_file.written /\ urls_file'.written)
            => /\ seg > Len(target_urls)
               /\ Len(stages) = Len(target_urls)
               /\ NoTaskPending
               /\ urls_file'.rows = collected_urls]_vars

\* the file is written with URLs of the first segment followed by URLs of
\* the second
C16_Witness ==
    /\ urls_file.written
    /\ call_base >= 1
    /\ Len(urls_file.rows) > call_base
    /\ \E p \in CallRange : task[p].st = "done"

\* the URLs the current call has appended for page p among its first n
\* additions, in the order of the collection
RECURSIVE AppendedFor(_, _)
AppendedFor(p, n) ==
    IF n = 0 THEN <<>>
    ELSE IF appended_by[n] = p
         THEN Append(AppendedFor(p, n - 1), AddedByCall[n])
         ELSE AppendedFor(p, n - 1)

\* the number of anchors of page p whose href the task has appended
Extracted(p) == IF task[p].at = "for" THEN task[p].i - 1 ELSE 0

\* C17: the URLs a page task has appended so far are, in the order they
\* have in the collection, the hrefs of the first anchors of its page in
\* document order, and of all its anchors once the task has printed its
\* processed message, whatever the other tasks appended in between.
C17_PageOrderPreserved ==
    /\ Len(appended_by) = Len(AddedByCall)
    /\ \A p \in DOMAIN task :
          /\ Extracted(p) <= Len(task[p].response.elements)
          /\ AppendedFor(p, Len(appended_by))
                = [n \in 1..Extracted(p) |-> task[p].response.elements[n]["href"]]
          /\ (task[p].st = "done" /\ task[p].at = "for")
                => Extracted(p) = Len(task[p].response.elements)

\* the URL of another page lies between two URLs of one page
C17_Witness ==
    \E a, b, c \in DOMAIN appended_by :
        /\ a < b /\ b < c
        /\ appended_by[a] = appended_by[c]
        /\ appended_by[b] # appended_by[a]
        /\ AddedByCall[a] # AddedByCall[c]

\* the task of page p has raised in its for loop, at an anchor without href
RaisedPartway(p) == task[p].st = "raised" /\ task[p].at = "for"

\* every page of the call is submitted and no task is queued or running
CallDrained == pc = "map" /\ next_page \notin page_range(FirstPage, LastPage) /\ NoTaskPending

\* C18: the step in which a task raises at an anchor without href changes
\* neither the collection nor the log nor the position of the pipeline; and
\* for a task of the current call that has raised so, the URLs it appended
\* before are still in the collection in their order, the call has printed
\* no message for its page, the pipeline is at one of its regular positions,
\* the call can return as soon as no task is pending, and when it has
\* returned every other task of the call has run to its end; no step
\* removes a URL from the collection.
C18_RaiseKeepsAppendedURLs ==
    [][/\ IsPrefix(collected_urls, collected_urls')
       /\ \A p \in CallRange :
              (task[p].st = "running" /\ RaisedPartway(p)')
                  => UNCHANGED <<collected_urls, log, pc, seg>>
       /\ \A p \in CallRange :
              RaisedPartway(p)' =>
                  (/\ AppendedFor(p, Len(appended_by))
                        = [n \in 1..Extracted(p) |-> task[p].response.elements[n]["href"]]
                   /\ Logged("processed", p) = 0
                   /\ Logged("failed", p) = 0
                   /\ pc \in {"map", "loop", "sleep", "sanitize", "done"}
                   /\ CallDrained => ENABLED harvest_return(LastPage)
                   /\ HarvestReturned =>
                          \A q \in CallRange \ {p} : task[q].st \in {"done", "raised"})']_vars

\* the pipeline is done; in its last call a task raised after appending a
\* URL that is still in the collection, and another task was processed
C18_Witness ==
    /\ pc = "done"
    /\ \E p, q \in CallRange :
          /\ RaisedPartway(p)
          /\ Extracted(p) >= 1
          /\ AppendedFor(p, Len(appended_by)) = <<task[p].response.elements[1]["href"]>>
          /\ q # p
          /\ task[q].st = "done"

\* the stages after URL harvesting that the pipeline is to run, in order
StagesAfterHarvest == <<"persist_urls", "harvest_details", "persist_details", "clean">>

IsNotHarvest(stage) == stage # "harvest_urls"

\* C11: when the pipeline is done it has run its stages in order: the URL
\* harvest of every search segment, then persisting the URL list, then
\* harvesting the details, then persisting the detail records, then the
\* cleaning of the table.
C11_StagesInOrder ==
    pc = "done" =>
        /\ Len(stages) = Len(target_urls) + Len(StagesAfterHarvest)
        /\ \A n \in 1..Len(target_urls) : stages[n] = "harvest_urls"
        /\ SelectSeq(stages, IsNotHarvest) = StagesAfterHarvest

\* C7: the result is None exactly when no flag of the list is true under
\* data.flags.
C7_NoneIffNoFlagTrue ==
    ClassifyReturned =>
        ((call.ret = Return(PyNone))
            <=> (\A n \in DOMAIN FlagOrder : ~FlagIsTrue(call.args.property_data, FlagOrder[n])))

\* the first iw-load-advertisements element of the page has the attribute
HoldsClassified(response) ==
    /\ ~response.raised
    /\ Len(response.elements) > 0
    /\ ":classified" \in DOMAIN response.elements[1]

\* C9: the call returns its index with a record; the record has typeOfSale
\* exactly when the status is 200 and the page holds the element with its
\* attribute, and is empty otherwise.
C9_AlwaysReturnsIndexAndRecord ==
    DetailsReturned =>
        /\ call.ret.raises = "none"
        /\ call.ret.value.index = call.args.property_index
        /\ ("typeOfSale" \in DOMAIN call.ret.value.info)
              <=> (call.args.response.status_code = 200 /\ HoldsClassified(call.args.response))
        /\ DOMAIN call.ret.value.info \subseteq {"typeOfSale"}

\* C14: a call of extract_property_details whose fetch gets a non-success
\* status returns its index with the empty record and has printed a
\* message: the log holds an entry.
C14_DetailFailureIsLogged ==
    (/\ DetailsReturned
     /\ ~call.args.response.raised
     /\ call.args.response.status_code # HTTP_OK)
        => /\ call.ret.raises = "none"
           /\ call.ret.value.index = call.args.property_index
           /\ DOMAIN call.ret.value.info = {}
           /\ \E e \in DOMAIN log : log[e] > 0

TypeOK ==
    /\ pc \in {"loop", "map", "sleep", "sanitize", "done"}
    /\ seg \in 1..(Len(target_urls) + 1)
    /\ collected_urls \in Seq(URLS)
====
